---- MODULE Spec2Model ----
(***************************************************************************)
(* College FAQ chatbot: the retrieval-then-generation pipeline of the two  *)
(* front ends, src/api_app.py (HTTP, POST /chat/) and src/app.py (CLI      *)
(* read loop).  A process picks its front end and its environment, runs    *)
(* the module-level startup checks, connects to the vector store and then  *)
(* serves requests.  Every request embeds the query, calls near_vector on  *)
(* the store, and, when a match came back, calls the hosted model.         *)
(*                                                                         *)
(* Text is a sequence of tokens; a token is a character or a fixed piece   *)
(* of a message.  The vector store and the hosted model are the            *)
(* environment: their replies are drawn from StoreReplies / ModelReplies.  *)
(***************************************************************************)
EXTENDS Integers, Sequences, FiniteSets, TLC

\* ------------------------------------------------------------------ bounds

\* number of requests (HTTP requests in flight, CLI loop iterations) of a run
NumReq == 2
\* longest completion content, in characters, the Responder is applied to
MaxLen == 3
\* most entries of a `choices` array the Responder is applied to
MaxChoices == 2
\* largest top_k the Retriever is applied to on its own
MaxTopK == 2

\* ------------------------------------------------------- program constants

\* top_k passed by both front ends (chat_with_bot, run_chatbot)
TopK == 1

FrontEnds == {"http", "cli"}
Req == 1..NumReq
Queries == {"How do I apply for financial aid?", "What are the library hours?"}

\* Python's None, as the value of a missing property or an absent field
None == "<None>"

NoMatchMsg ==
  <<"I couldn't find a relevant FAQ for your question. Please try rephrasing or ask about general college topics.">>
ApologyMsg == <<"I couldn't generate a response for that. Please try rephrasing.">>
CliHttpErrorMsg == <<"I'm having trouble connecting to the AI. Please try again later.">>
CliErrorMsg == <<"I'm having trouble generating a response. Please try again later.">>
RetrievalErrorDetail == <<"Error retrieving FAQs from database.">>
QuotaDetail == <<"DeepSeek API: Insufficient Balance. Please top up your account.">>
TimeoutDetail == <<"DeepSeek API did not respond in time.">>
GenericDetail == <<"Error generating AI response.">>

\* ------------------------------------------------------------ vector store

\* the objects near_vector can return: `properties` is a dict that may be
\* empty or lack a requested property
StoreObjects ==
  { [properties |-> <<>>],
    [properties |-> [question |-> "financial aid"]],
    [properties |-> [question |-> "financial aid", answer |-> "library"]],
    [properties |-> [question |-> "library", answer |-> "financial aid"]] }

RECURSIVE SeqsUpTo(_, _)
SeqsUpTo(S, n) ==
  IF n = 0 THEN {<<>>}
  ELSE LET shorter == SeqsUpTo(S, n - 1)
       IN shorter \cup {Append(s, x) : s \in {t \in shorter : Len(t) = n - 1}, x \in S}

\* what the store call ends with: an ordered sequence of at most `limit`
\* objects, or an exception (connection refused, malformed reply); the
\* exception of a query that timed out is the reply of kind "timeout"
StoreReplies(limit) ==
  {[kind |-> "objects", objects |-> os] : os \in SeqsUpTo(StoreObjects, limit)}
    \cup {[kind |-> "exception", objects |-> <<>>]}

NoStoreReply == [kind |-> "none", objects |-> <<>>]

\* the objects the Retriever is applied to on its own: those above and one
\* whose properties hold more than what was asked for
RetrieverObjects ==
  StoreObjects
    \cup {[properties |-> [question |-> "library", answer |-> "library",
                            category |-> "hours"]]}

\* near_vector(limit=limit) on such a store: at most `limit` objects, most
\* similar first, or an exception
RetrieverReplies(limit) ==
  {[kind |-> "objects", objects |-> os] : os \in SeqsUpTo(RetrieverObjects, limit)}
    \cup {[kind |-> "exception", objects |-> <<>>]}

\* dict.get(key): the value, or None when the key is missing
Get(props, key) == IF key \in DOMAIN props THEN props[key] ELSE None

\* ExtractResults that puts each new entry in front of the list (insert(0, ..)
\* for append)
RECURSIVE ExtractResultsReversed(_)
ExtractResultsReversed(objects) ==
  IF objects = <<>> THEN <<>>
  ELSE LET o == Head(objects)
           rest == ExtractResultsReversed(Tail(objects))
       IN IF DOMAIN o.properties # {}
          THEN rest \o <<[question |-> Get(o.properties, "question"),
                          answer |-> Get(o.properties, "answer")]>>
          ELSE rest

\* the loop over response.objects: objects with falsy (empty) properties are
\* skipped, the others contribute {question, answer} in the store's order
RECURSIVE ExtractResults(_)
ExtractResults(objects) ==
  IF objects = <<>> THEN <<>>
  ELSE LET o == Head(objects)
           rest == ExtractResults(Tail(objects))
       IN IF DOMAIN o.properties # {}
          THEN <<[question |-> Get(o.properties, "question"),
                  answer |-> Get(o.properties, "answer")]>> \o rest
          ELSE rest

\* api_app.get_relevant_faq: an exception of the store call is re-raised as
\* HTTPException(500)
get_relevant_faq_api(reply) ==
  IF reply.kind = "objects"
  THEN [raised |-> FALSE, value |-> ExtractResults(reply.objects),
        status_code |-> 0, detail |-> <<>>]
  ELSE [raised |-> TRUE, value |-> <<>>,
        status_code |-> 500, detail |-> RetrievalErrorDetail]

\* app.get_relevant_faq: an exception of the store call is printed and the
\* function returns []
get_relevant_faq_cli(reply) ==
  IF reply.kind = "objects"
  THEN [raised |-> FALSE, value |-> ExtractResults(reply.objects),
        status_code |-> 0, detail |-> <<>>]
  ELSE [raised |-> FALSE, value |-> <<>>, status_code |-> 0, detail |-> <<>>]

get_relevant_faq(fe, reply) ==
  IF fe = "http" THEN get_relevant_faq_api(reply) ELSE get_relevant_faq_cli(reply)

\* ------------------------------------------------------------ hosted model

Whitespace == {" ", "\n"}
Chars == {" ", "a"}

\* str.strip(): leading and trailing whitespace removed
RECURSIVE LStrip(_)
LStrip(s) ==
  IF s # <<>> /\ Head(s) \in Whitespace THEN LStrip(Tail(s)) ELSE s

RECURSIVE RStrip(_)
RStrip(s) ==
  IF s # <<>> /\ s[Len(s)] \in Whitespace
  THEN RStrip(SubSeq(s, 1, Len(s) - 1)) ELSE s

\* Strip that leaves trailing whitespace (str.lstrip)
StripLeftOnly(s) == LStrip(s)

Strip(s) == RStrip(LStrip(s))

\* str(x) inside an f-string
Str(x) == IF x = None THEN "None" ELSE x

\* ContextText with the two fields exchanged
ContextTextSwapped(top_faq) ==
  <<"Question: ", Str(top_faq.answer), "\nAnswer: ", Str(top_faq.question)>>

\* f"Question: {top_faq['question']}\nAnswer: {top_faq['answer']}"
ContextText(top_faq) ==
  <<"Question: ", Str(top_faq.question), "\nAnswer: ", Str(top_faq.answer)>>

\* a decoded body: json = FALSE when response.json() raises; keys are the
\* top-level keys; a choice is well formed when it has message.content
Body(json, keys, choices) == [json |-> json, keys |-> keys, choices |-> choices]
Choice(wf, content) == [well_formed |-> wf, content |-> content]

NoBody == Body(FALSE, {}, <<>>)

Response(status, text, body) ==
  [kind |-> "response", status_code |-> status, text |-> text, body |-> body]

NoModelReply == [kind |-> "none", status_code |-> 0, text |-> "", body |-> NoBody]
TimeoutReply == [kind |-> "timeout", status_code |-> 0, text |-> "", body |-> NoBody]
ConnectionErrorReply ==
  [kind |-> "connection_error", status_code |-> 0, text |-> "", body |-> NoBody]

\* response.raise_for_status(): HTTPError for 4xx and 5xx
RaisesForStatus(status) == 400 <= status /\ status < 600

Ok(text) == [raised |-> FALSE, text |-> text, status_code |-> 0, detail |-> <<>>]
Raise(status, detail) ==
  [raised |-> TRUE, text |-> <<>>, status_code |-> status, detail |-> detail]

\* the try body after raise_for_status: response.json(), the choices test,
\* choices[0]['message']['content'].strip().  exc = TRUE when it raises
\* (body is not JSON, the first choice has no message.content)
ParseCompletion(body) ==
  IF ~body.json THEN [exc |-> TRUE, text |-> <<>>]
  ELSE IF "choices" \in body.keys /\ Len(body.choices) > 0
       THEN IF body.choices[1].well_formed
            THEN [exc |-> FALSE, text |-> Strip(body.choices[1].content)]
            ELSE [exc |-> TRUE, text |-> <<>>]
       ELSE [exc |-> FALSE, text |-> ApologyMsg]

\* generate_llm_response_api without the 402 test: every HTTPError is generic
generate_llm_response_api_no402(reply) ==
  IF reply.kind = "timeout" THEN Raise(504, TimeoutDetail)
  ELSE IF reply.kind = "connection_error" THEN Raise(500, GenericDetail)
  ELSE IF RaisesForStatus(reply.status_code)
       THEN Raise(500, <<"DeepSeek API Error: ", ToString(reply.status_code), " - ", reply.text>>)
       ELSE LET p == ParseCompletion(reply.body)
            IN IF p.exc THEN Raise(500, GenericDetail) ELSE Ok(p.text)

\* api_app.generate_llm_response, from the reply of requests.post on
generate_llm_response_api(reply) ==
  IF reply.kind = "timeout" THEN Raise(504, TimeoutDetail)
  ELSE IF reply.kind = "connection_error" THEN Raise(500, GenericDetail)
  ELSE IF RaisesForStatus(reply.status_code)
       THEN IF reply.status_code = 402
            THEN Raise(503, QuotaDetail)
            ELSE Raise(500, <<"DeepSeek API Error: ", ToString(reply.status_code), " - ", reply.text>>)
       ELSE LET p == ParseCompletion(reply.body)
            IN IF p.exc THEN Raise(500, GenericDetail) ELSE Ok(p.text)

\* app.generate_llm_response: every failure is turned into a returned string
generate_llm_response_cli(reply) ==
  IF reply.kind \in {"timeout", "connection_error"} THEN Ok(CliErrorMsg)
  ELSE IF RaisesForStatus(reply.status_code) THEN Ok(CliHttpErrorMsg)
       ELSE LET p == ParseCompletion(reply.body)
            IN IF p.exc THEN Ok(CliErrorMsg) ELSE Ok(p.text)

generate_llm_response(fe, reply) ==
  IF fe = "http" THEN generate_llm_response_api(reply)
  ELSE generate_llm_response_cli(reply)

\* the replies of the hosted model the pipeline is run against
CompletionBodies ==
  { Body(FALSE, {}, <<>>),
    Body(TRUE, {"choices"}, <<>>),
    Body(TRUE, {"choices"}, <<Choice(FALSE, <<>>)>>),
    Body(TRUE, {"choices"}, <<Choice(TRUE, <<" ", "a", " ">>)>>) }

\* the well-formed 2xx bodies the Responder is applied to on its own: no
\* `choices` key, or a `choices` array of up to MaxChoices completions
ResponderBodies ==
  {Body(TRUE, {}, <<>>), Body(TRUE, {"id"}, <<>>)}
    \cup {Body(TRUE, {"id", "choices"}, cs) :
            cs \in SeqsUpTo({Choice(TRUE, c) : c \in SeqsUpTo(Chars, MaxLen)}, MaxChoices)}

ModelReplies ==
  {Response(200, "", b) : b \in CompletionBodies}
    \cup {Response(s, "upstream error body", NoBody) : s \in {402, 404, 500}}
    \cup {ConnectionErrorReply}

\* ------------------------------------------------------------------- state

VARIABLES
  frontend,       \* which program runs: "http" (api_app.py) or "cli" (app.py)
  env,            \* the variables the program reads that are set (and non-empty)
  proc,           \* "check_env", "connect", "serving", "refused", "cleanup", "stopped"
  conn,           \* the Weaviate client: "unopened", "open", "closed"
  closeCalls,     \* client.close() calls made
  pc,             \* per request: "idle", "START", "wait_store", "wait_model", "done", "aborted"
  query,          \* per request: user_query / user_input
  storeCalls,     \* per request: near_vector calls issued
  modelCalls,     \* per request: requests.post calls issued
  storeReply,     \* per request: what near_vector ended with
  relevant_faqs,  \* per request: the local relevant_faqs
  context_text,   \* per request: the grounding text passed to the Responder
  modelReply,     \* per request: what requests.post ended with
  outcome,        \* per request: what the caller got
  rsp_pc,         \* Responder applied on its own: "input", "returned"
  rsp_fe,         \*   the front end whose Responder is applied
  rsp_body,       \*   the decoded 2xx body it is applied to
  rsp_result,     \*   what it returned or raised
  rt_pc,          \* Retriever applied on its own: "input", "returned"
  rt_fe,          \*   the front end whose get_relevant_faq is applied
  rt_query,       \*   its query
  rt_top_k,       \*   its top_k
  rt_reply,       \*   what near_vector(limit=top_k) ended with
  rt_result       \*   what get_relevant_faq returned or raised

procVars == <<frontend, env, proc, conn, closeCalls>>
reqVars == <<pc, query, storeCalls, modelCalls, storeReply, relevant_faqs,
             context_text, modelReply, outcome>>
rspVars == <<rsp_pc, rsp_fe, rsp_body, rsp_result>>
rtVars == <<rt_pc, rt_fe, rt_query, rt_top_k, rt_reply, rt_result>>
vars == <<frontend, env, proc, conn, closeCalls, pc, query, storeCalls, modelCalls, storeReply,
          relevant_faqs, context_text, modelReply, outcome,
          rsp_pc, rsp_fe, rsp_body, rsp_result,
          rt_pc, rt_fe, rt_query, rt_top_k, rt_reply, rt_result>>

NoOutcome ==
  [state |-> "none", status |-> 0, response |-> <<>>, source_faq |-> <<>>,
   detail |-> <<>>]

\* HTTPException(status_code, detail) leaving chat_with_bot
ErrorOutcome(status, detail) ==
  [state |-> "ERROR", status |-> status, response |-> <<>>, source_faq |-> <<>>,
   detail |-> detail]

\* api_app returns {"response": chatbot_response, "source_faq": top_faq};
\* app prints "Chatbot: {chatbot_response}"
OkOutcome(fe, text, top_faq) ==
  [state |-> "OK", status |-> IF fe = "http" THEN 200 ELSE 0,
   response |-> text, source_faq |-> IF fe = "http" THEN <<top_faq>> ELSE <<>>,
   detail |-> <<>>]

\* NoMatchOutcome with the Responder's apology in place of the no-match text
NoMatchOutcomeApology(fe) ==
  [state |-> "NO_MATCH", status |-> IF fe = "http" THEN 200 ELSE 0,
   response |-> ApologyMsg, source_faq |-> <<>>, detail |-> <<>>]

\* the else branch: api_app returns the fixed message with source_faq None,
\* app prints the fixed message
NoMatchOutcome(fe) ==
  [state |-> "NO_MATCH", status |-> IF fe = "http" THEN 200 ELSE 0,
   response |-> NoMatchMsg, source_faq |-> <<>>, detail |-> <<>>]

\* `if relevant_faqs:` -- a non-empty list
HasMatch(faqs) == Len(faqs) > 0

\* TopFaq read from one variable shared by all requests: the last request that
\* has a match wrote it
TopFaqShared(r) ==
  LET owners == {s \in Req : relevant_faqs[s] # <<>>}
      last == CHOOSE s \in owners : \A t \in owners : t <= s
  IN relevant_faqs[last][1]

\* top_faq = relevant_faqs[0]
TopFaq(r) == relevant_faqs[r][1]

InFlight(r) == pc[r] \in {"START", "wait_store", "wait_model"}

\* the names each front end reads with os.getenv
ConfigRead(fe) ==
  IF fe = "http" THEN {"DEEPSEEK_API_KEY", "WEAVIATE_URL", "WEAVIATE_API_KEY"}
  ELSE {"DEEPSEEK_API_KEY"}

\* the program and its environment are given; nothing has run yet
Init ==
  /\ frontend \in FrontEnds
  /\ env \in SUBSET ConfigRead(frontend)
  /\ proc = "check_env"
  /\ conn = "unopened"
  /\ closeCalls = 0
  /\ pc = [r \in Req |-> "idle"]
  /\ query = [r \in Req |-> None]
  /\ storeCalls = [r \in Req |-> 0]
  /\ modelCalls = [r \in Req |-> 0]
  /\ storeReply = [r \in Req |-> NoStoreReply]
  /\ relevant_faqs = [r \in Req |-> <<>>]
  /\ context_text = [r \in Req |-> <<>>]
  /\ modelReply = [r \in Req |-> NoModelReply]
  /\ outcome = [r \in Req |-> NoOutcome]
  /\ rsp_pc = "off"
  /\ rsp_fe = "http"
  /\ rsp_body = NoBody
  /\ rsp_result = Ok(<<>>)
  /\ rt_pc = "off"
  /\ rt_fe = "http"
  /\ rt_query = None
  /\ rt_top_k = TopK
  /\ rt_reply = NoStoreReply
  /\ rt_result = get_relevant_faq_cli(NoStoreReply)

\* ----------------------------------------------------------------- startup

\* CheckedEnv without the test of WEAVIATE_API_KEY
CheckedEnvNoStoreKey(fe) ==
  IF fe = "http" THEN {"DEEPSEEK_API_KEY", "WEAVIATE_URL"}
  ELSE {"DEEPSEEK_API_KEY"}

\* the names each front end tests with `if not ...:` before going on
CheckedEnv(fe) ==
  IF fe = "http" THEN {"DEEPSEEK_API_KEY", "WEAVIATE_URL", "WEAVIATE_API_KEY"}
  ELSE {"DEEPSEEK_API_KEY"}

\* module level: raise ValueError (api_app) / exit() (app) on the first
\* checked name that is not set
CheckEnv ==
  /\ proc = "check_env"
  /\ proc' = IF CheckedEnv(frontend) \subseteq env THEN "connect" ELSE "refused"
  /\ UNCHANGED <<frontend, env, conn, closeCalls>>
  /\ UNCHANGED reqVars
  /\ UNCHANGED rspVars
  /\ UNCHANGED rtVars

\* module level: client.connect() raises, or connects and is_live() is False
\* (process ends, the connection stays as it is), or the store is live
Connect ==
  /\ proc = "connect"
  /\ \E result \in {"raises", "not_live", "live"} :
       /\ conn' = IF result = "raises" THEN "unopened" ELSE "open"
       /\ proc' = IF result = "live" THEN "serving" ELSE "refused"
  /\ UNCHANGED <<frontend, env, closeCalls>>
  /\ UNCHANGED reqVars
  /\ UNCHANGED rspVars
  /\ UNCHANGED rtVars

\* ---------------------------------------------------------------- requests

\* POST /chat/ arrives: user_query = request.query.  Handlers of different
\* requests are interleaved at their outbound calls; a server that runs one
\* handler to its end before the next has the behaviours among these in which
\* the steps of a request follow one another
ChatRequest(r, q) ==
  /\ frontend = "http"
  /\ proc = "serving"
  /\ pc[r] = "idle"
  /\ pc' = [pc EXCEPT ![r] = "START"]
  /\ query' = [query EXCEPT ![r] = q]
  /\ UNCHANGED <<storeCalls, modelCalls, storeReply, relevant_faqs, context_text,
                 modelReply, outcome>>
  /\ UNCHANGED procVars
  /\ UNCHANGED rspVars
  /\ UNCHANGED rtVars

\* the read loop takes a line that is not the sentinel; the loop handles one
\* input at a time
ReadInput(r, q) ==
  /\ frontend = "cli"
  /\ proc = "serving"
  /\ \A s \in Req : ~InFlight(s)
  /\ pc[r] = "idle"
  /\ \A s \in Req : s < r => pc[s] # "idle"
  /\ pc' = [pc EXCEPT ![r] = "START"]
  /\ query' = [query EXCEPT ![r] = q]
  /\ UNCHANGED <<storeCalls, modelCalls, storeReply, relevant_faqs, context_text,
                 modelReply, outcome>>
  /\ UNCHANGED procVars
  /\ UNCHANGED rspVars
  /\ UNCHANGED rtVars

\* CallStore that searches again after a request ended in an error
CallStoreRetry(r) ==
  /\ proc = "serving"
  /\ \/ pc[r] = "START"
     \/ pc[r] = "done" /\ outcome[r].state = "ERROR"
  /\ pc' = [pc EXCEPT ![r] = "wait_store"]
  /\ storeCalls' = [storeCalls EXCEPT ![r] = @ + 1]
  /\ UNCHANGED <<query, modelCalls, storeReply, relevant_faqs, context_text,
                 modelReply, outcome>>
  /\ UNCHANGED procVars
  /\ UNCHANGED rspVars
  /\ UNCHANGED rtVars

\* get_relevant_faq up to the store call: the query is embedded and
\* near_vector(limit=top_k) is issued
CallStore(r) ==
  /\ proc = "serving"
  /\ pc[r] = "START"
  /\ pc' = [pc EXCEPT ![r] = "wait_store"]
  /\ storeCalls' = [storeCalls EXCEPT ![r] = @ + 1]
  /\ UNCHANGED <<query, modelCalls, storeReply, relevant_faqs, context_text,
                 modelReply, outcome>>
  /\ UNCHANGED procVars
  /\ UNCHANGED rspVars
  /\ UNCHANGED rtVars

\* from the end of near_vector to the next outbound call or to the end of the
\* request: the rest of get_relevant_faq, the `if relevant_faqs:` test, the
\* grounding text and the start of requests.post
AfterStore(r, reply) ==
  /\ storeReply' = [storeReply EXCEPT ![r] = reply]
  /\ LET res == get_relevant_faq(frontend, reply)
     IN IF res.raised
        THEN /\ outcome' = [outcome EXCEPT ![r] = ErrorOutcome(res.status_code, res.detail)]
             /\ pc' = [pc EXCEPT ![r] = "done"]
             /\ UNCHANGED <<relevant_faqs, context_text, modelCalls>>
        ELSE IF HasMatch(res.value)
        THEN /\ relevant_faqs' = [relevant_faqs EXCEPT ![r] = res.value]
             /\ context_text' = [context_text EXCEPT ![r] = ContextText(res.value[1])]
             /\ modelCalls' = [modelCalls EXCEPT ![r] = @ + 1]
             /\ pc' = [pc EXCEPT ![r] = "wait_model"]
             /\ UNCHANGED outcome
        ELSE /\ relevant_faqs' = [relevant_faqs EXCEPT ![r] = res.value]
             /\ outcome' = [outcome EXCEPT ![r] = NoMatchOutcome(frontend)]
             /\ pc' = [pc EXCEPT ![r] = "done"]
             /\ UNCHANGED <<context_text, modelCalls>>
  /\ UNCHANGED <<query, storeCalls, modelReply>>
  /\ UNCHANGED procVars
  /\ UNCHANGED rspVars
  /\ UNCHANGED rtVars

\* the store answers the search, or the call raises
StoreReturns(r, reply) ==
  /\ proc = "serving"
  /\ pc[r] = "wait_store"
  /\ AfterStore(r, reply)

\* the store does not answer: the Weaviate client gives the query up when its
\* own query timeout runs out, and near_vector raises
StoreTimeout(r) ==
  /\ proc = "serving"
  /\ pc[r] = "wait_store"
  /\ AfterStore(r, [kind |-> "timeout", objects |-> <<>>])

\* from the end of requests.post to the end of the request: the rest of
\* generate_llm_response and what the front end does with its result
AfterModel(r, reply) ==
  /\ modelReply' = [modelReply EXCEPT ![r] = reply]
  /\ LET res == generate_llm_response(frontend, reply)
     IN outcome' = [outcome EXCEPT ![r] =
                      IF res.raised THEN ErrorOutcome(res.status_code, res.detail)
                      ELSE OkOutcome(frontend, res.text, TopFaq(r))]
  /\ pc' = [pc EXCEPT ![r] = "done"]
  /\ UNCHANGED <<query, storeCalls, modelCalls, storeReply, relevant_faqs, context_text>>
  /\ UNCHANGED procVars
  /\ UNCHANGED rspVars
  /\ UNCHANGED rtVars

\* the hosted model answers, or the connection fails
ModelReturns(r, reply) ==
  /\ proc = "serving"
  /\ pc[r] = "wait_model"
  /\ AfterModel(r, reply)

\* requests.post(..., timeout=10) in api_app raises Timeout; app passes no
\* timeout, so there the call has no such end
HasRequestTimeout(fe) == fe = "http"

ModelTimeout(r) ==
  /\ proc = "serving"
  /\ HasRequestTimeout(frontend)
  /\ pc[r] = "wait_model"
  /\ AfterModel(r, TimeoutReply)

\* ---------------------------------------------------------------- shutdown

\* the read loop gets the sentinel `exit`: break, then the finally clause
ExitSentinel ==
  /\ frontend = "cli"
  /\ proc = "serving"
  /\ \A s \in Req : ~InFlight(s)
  /\ proc' = "cleanup"
  /\ UNCHANGED <<frontend, env, conn, closeCalls>>
  /\ UNCHANGED reqVars
  /\ UNCHANGED rspVars
  /\ UNCHANGED rtVars

\* Ctrl-C anywhere in run_chatbot: the request being handled is abandoned,
\* `except KeyboardInterrupt`, then the finally clause
KeyboardInterrupt ==
  /\ frontend = "cli"
  /\ proc = "serving"
  /\ proc' = "cleanup"
  /\ pc' = [r \in Req |-> IF InFlight(r) THEN "aborted" ELSE pc[r]]
  /\ UNCHANGED <<frontend, env, conn, closeCalls>>
  /\ UNCHANGED <<query, storeCalls, modelCalls, storeReply, relevant_faqs,
                 context_text, modelReply, outcome>>
  /\ UNCHANGED rspVars
  /\ UNCHANGED rtVars

\* any other exception in run_chatbot (EOFError of input(), an exception of
\* the embedding model): no except clause takes it, the finally clause runs
ReadLoopException ==
  /\ frontend = "cli"
  /\ proc = "serving"
  /\ proc' = "cleanup"
  /\ pc' = [r \in Req |-> IF InFlight(r) THEN "aborted" ELSE pc[r]]
  /\ UNCHANGED <<frontend, env, conn, closeCalls>>
  /\ UNCHANGED <<query, storeCalls, modelCalls, storeReply, relevant_faqs,
                 context_text, modelReply, outcome>>
  /\ UNCHANGED rspVars
  /\ UNCHANGED rtVars

\* cleanup_client: close the client if it is connected
CleanupClient ==
  /\ frontend = "cli"
  /\ proc = "cleanup"
  /\ conn' = IF conn = "open" THEN "closed" ELSE conn
  /\ closeCalls' = IF conn = "open" THEN closeCalls + 1 ELSE closeCalls
  /\ proc' = "stopped"
  /\ UNCHANGED <<frontend, env>>
  /\ UNCHANGED reqVars
  /\ UNCHANGED rspVars
  /\ UNCHANGED rtVars

\* the FastAPI shutdown event, once the requests in flight have ended
ShutdownEvent ==
  /\ frontend = "http"
  /\ proc = "serving"
  /\ \A s \in Req : ~InFlight(s)
  /\ conn' = IF conn = "open" THEN "closed" ELSE conn
  /\ closeCalls' = IF conn = "open" THEN closeCalls + 1 ELSE closeCalls
  /\ proc' = "stopped"
  /\ UNCHANGED <<frontend, env>>
  /\ UNCHANGED reqVars
  /\ UNCHANGED rspVars
  /\ UNCHANGED rtVars

\* ------------------------------------------------------------ specification

Next ==
  \/ CheckEnv
  \/ Connect
  \/ \E r \in Req, q \in Queries : ChatRequest(r, q)
  \/ \E r \in Req, q \in Queries : ReadInput(r, q)
  \/ \E r \in Req : CallStore(r)
  \/ \E r \in Req, reply \in StoreReplies(TopK) : StoreReturns(r, reply)
  \/ \E r \in Req : StoreTimeout(r)
  \/ \E r \in Req, reply \in ModelReplies : ModelReturns(r, reply)
  \/ \E r \in Req : ModelTimeout(r)
  \/ ExitSentinel
  \/ KeyboardInterrupt
  \/ ReadLoopException
  \/ CleanupClient
  \/ ShutdownEvent

Spec == Init /\ [][Next]_vars

\* ------------------------------------------------- the Responder on its own

\* generate_llm_response applied to one 2xx reply, outside any request
InitResponder ==
  /\ rsp_pc = "input"
  /\ rsp_fe \in FrontEnds
  /\ rsp_body \in ResponderBodies
  /\ rsp_result = Ok(<<>>)
  /\ rt_pc = "off"
  /\ rt_fe = "http"
  /\ rt_query = None
  /\ rt_top_k = TopK
  /\ rt_reply = NoStoreReply
  /\ rt_result = get_relevant_faq_cli(NoStoreReply)
  /\ frontend = rsp_fe
  /\ env = ConfigRead(rsp_fe)
  /\ proc = "serving"
  /\ conn = "open"
  /\ closeCalls = 0
  /\ pc = [r \in Req |-> "idle"]
  /\ query = [r \in Req |-> None]
  /\ storeCalls = [r \in Req |-> 0]
  /\ modelCalls = [r \in Req |-> 0]
  /\ storeReply = [r \in Req |-> NoStoreReply]
  /\ relevant_faqs = [r \in Req |-> <<>>]
  /\ context_text = [r \in Req |-> <<>>]
  /\ modelReply = [r \in Req |-> NoModelReply]
  /\ outcome = [r \in Req |-> NoOutcome]

ApplyResponder ==
  /\ rsp_pc = "input"
  /\ rsp_result' = generate_llm_response(rsp_fe, Response(200, "", rsp_body))
  /\ rsp_pc' = "returned"
  /\ UNCHANGED <<rsp_fe, rsp_body>>
  /\ UNCHANGED rtVars
  /\ UNCHANGED procVars
  /\ UNCHANGED reqVars

NextResponder == ApplyResponder

SpecResponder == InitResponder /\ [][NextResponder]_vars

\* ------------------------------------------------- the Retriever on its own

\* get_relevant_faq(query, top_k) applied to one end of the store call,
\* outside any request
InitRetriever ==
  /\ rt_pc = "input"
  /\ rt_fe \in FrontEnds
  /\ rt_query \in Queries
  /\ rt_top_k \in 1..MaxTopK
  /\ rt_reply \in RetrieverReplies(rt_top_k)
  /\ rt_result = get_relevant_faq_cli(NoStoreReply)
  /\ rsp_pc = "off"
  /\ rsp_fe = "http"
  /\ rsp_body = NoBody
  /\ rsp_result = Ok(<<>>)
  /\ frontend = rt_fe
  /\ env = ConfigRead(rt_fe)
  /\ proc = "serving"
  /\ conn = "open"
  /\ closeCalls = 0
  /\ pc = [r \in Req |-> "idle"]
  /\ query = [r \in Req |-> None]
  /\ storeCalls = [r \in Req |-> 0]
  /\ modelCalls = [r \in Req |-> 0]
  /\ storeReply = [r \in Req |-> NoStoreReply]
  /\ relevant_faqs = [r \in Req |-> <<>>]
  /\ context_text = [r \in Req |-> <<>>]
  /\ modelReply = [r \in Req |-> NoModelReply]
  /\ outcome = [r \in Req |-> NoOutcome]

ApplyRetriever ==
  /\ rt_pc = "input"
  /\ rt_result' = get_relevant_faq(rt_fe, rt_reply)
  /\ rt_pc' = "returned"
  /\ UNCHANGED <<rt_fe, rt_query, rt_top_k, rt_reply>>
  /\ UNCHANGED rspVars
  /\ UNCHANGED procVars
  /\ UNCHANGED reqVars

NextRetriever == ApplyRetriever

SpecRetriever == InitRetriever /\ [][NextRetriever]_vars

\* ------------------------------------------------------------------ claims

StoreFailed(r) == storeReply[r].kind \in {"exception", "timeout"}

Is2xx(status) == 200 <= status /\ status < 300

\* the hosted-model call failed: timeout, connection error, non-2xx status,
\* or a 2xx reply whose body cannot be read
ModelFailed(r) ==
  LET m == modelReply[r]
  IN \/ m.kind \in {"timeout", "connection_error"}
     \/ m.kind = "response" /\ ~Is2xx(m.status_code)
     \/ /\ m.kind = "response"
        /\ Is2xx(m.status_code)
        /\ \/ ~m.body.json
           \/ "choices" \in m.body.keys /\ m.body.choices # <<>>
                /\ ~m.body.choices[1].well_formed

\* get_relevant_faq returned the empty list: the store answered with no
\* object that has properties, or (CLI) the search raised and [] came back
RetrievedNothing(r) ==
  \/ /\ storeReply[r].kind = "objects"
     /\ \A i \in 1..Len(storeReply[r].objects) :
          DOMAIN storeReply[r].objects[i].properties = {}
  \/ frontend = "cli" /\ StoreFailed(r)

\* C1: when the vector-store search fails, the request ends in a retrieval
\* error and not in NO_MATCH with the fixed no-match message, in both front
\* ends.
C1_StoreFailureIsNotNoMatch ==
  \A r \in Req :
    (pc[r] = "done" /\ StoreFailed(r)) =>
      /\ outcome[r].state = "ERROR"
      /\ outcome[r].response # NoMatchMsg

\* C2: a request whose retrieval returned an empty list ends in NO_MATCH: the
\* Responder was never called for it, no grounding text was built, the
\* response is the fixed no-match message and source_faq is null.
C2_EmptyRetrievalEndsNoMatch ==
  \A r \in Req :
    RetrievedNothing(r) =>
      /\ pc[r] = "done"
      /\ outcome[r].state = "NO_MATCH"
      /\ modelCalls[r] = 0
      /\ modelReply[r] = NoModelReply
      /\ context_text[r] = <<>>
      /\ outcome[r].response = NoMatchMsg
      /\ outcome[r].source_faq = <<>>

C2_Witness ==
  \E r \in Req :
    /\ RetrievedNothing(r)
    /\ Len(storeReply[r].objects) = 1
    /\ outcome[r].state = "NO_MATCH"

C4_ResponderFailureEndsInError ==
  \A r \in Req :
    (pc[r] = "done" /\ ModelFailed(r)) => outcome[r].state = "ERROR"

\* C5: a request that ends in OK returns as source_faq the {question, answer}
\* of the first record the store returned for it (HTTP), sent the grounding
\* text "Question: {q}\nAnswer: {a}" built from that record, and returns the
\* text the Responder produced from the reply to its own model call.
C5_OkCarriesOwnMatch ==
  \A r \in Req :
    outcome[r].state = "OK" =>
      /\ storeReply[r].kind = "objects"
      /\ Len(storeReply[r].objects) >= 1
      /\ LET first == storeReply[r].objects[1].properties
             q == IF "question" \in DOMAIN first THEN first.question ELSE None
             a == IF "answer" \in DOMAIN first THEN first.answer ELSE None
         IN /\ frontend = "http" =>
                 outcome[r].source_faq = <<[question |-> q, answer |-> a]>>
            /\ context_text[r] =
                 <<"Question: ", IF q = None THEN "None" ELSE q,
                   "\nAnswer: ", IF a = None THEN "None" ELSE a>>
      /\ modelReply[r].kind # "none"
      /\ ~generate_llm_response(frontend, modelReply[r]).raised
      /\ outcome[r].response = generate_llm_response(frontend, modelReply[r]).text

C5_Witness ==
  \E r \in Req :
    /\ frontend = "http"
    /\ outcome[r].state = "OK"
    /\ outcome[r].source_faq = <<[question |-> "library", answer |-> "financial aid"]>>
    /\ outcome[r].response = <<"a">>

\* C6: a request is one forward pass: at most one store search and at most
\* one model call; the model call is made only after the search returned a
\* match; once either call has failed the request has ended with exactly the
\* calls made so far.
C6_OnePassNoRetry ==
  \A r \in Req :
    /\ storeCalls[r] <= 1
    /\ modelCalls[r] <= 1
    /\ modelCalls[r] <= storeCalls[r]
    /\ modelCalls[r] = 1 =>
         /\ storeReply[r].kind = "objects"
         /\ \E i \in 1..Len(storeReply[r].objects) :
              DOMAIN storeReply[r].objects[i].properties # {}
    /\ StoreFailed(r) =>
         (pc[r] = "done" /\ storeCalls[r] = 1 /\ modelCalls[r] = 0)
    /\ ModelFailed(r) =>
         (pc[r] = "done" /\ storeCalls[r] = 1 /\ modelCalls[r] = 1)

C6_Witness ==
  \E r \in Req :
    /\ pc[r] = "done"
    /\ ModelFailed(r)
    /\ storeCalls[r] = 1
    /\ modelCalls[r] = 1

\* ----------------------------------------------------- termination (fairness)

\* the program's own steps are taken when they can be, and a call that has a
\* timeout ends when no reply comes; the store, the hosted model and the user
\* owe nothing
FairSpec ==
  /\ Spec
  /\ WF_vars(CheckEnv)
  /\ WF_vars(Connect)
  /\ WF_vars(CleanupClient)
  /\ \A r \in Req : WF_vars(CallStore(r))
  /\ \A r \in Req : WF_vars(StoreTimeout(r))
  /\ \A r \in Req : WF_vars(ModelTimeout(r))

\* C7: every started request eventually ends (OK, NO_MATCH or ERROR, or it is
\* abandoned by Ctrl-C), even when the store or the hosted model never
\* replies.
C7_EveryRequestEnds ==
  \A r \in Req : (pc[r] = "START") ~> (pc[r] \in {"done", "aborted"})

\* C8: applied to a well-formed 2xx body, the Responder raises nothing; with
\* `choices` empty or absent it returns the fixed apology string, otherwise
\* the content of the first choice without its leading and trailing
\* whitespace.
C8_ApologyOrTrimmedFirstChoice ==
  rsp_pc = "returned" =>
    /\ ~rsp_result.raised
    /\ IF "choices" \in rsp_body.keys /\ rsp_body.choices # <<>>
       THEN LET c == rsp_body.choices[1].content
                t == rsp_result.text
            IN /\ t # <<>> => (t[1] \notin Whitespace /\ t[Len(t)] \notin Whitespace)
               /\ \E i \in 0..Len(c) :
                    /\ i + Len(t) <= Len(c)
                    /\ \A k \in 1..Len(t) : c[i + k] = t[k]
                    /\ \A k \in 1..Len(c) :
                         (k <= i \/ k > i + Len(t)) => c[k] \in Whitespace
       ELSE rsp_result.text = ApologyMsg

C8_Witness ==
  /\ rsp_pc = "returned"
  /\ Len(rsp_body.choices) = 2
  /\ rsp_body.choices[1].content = <<" ", "a", " ">>
  /\ rsp_result.text = <<"a">>

\* C9: in a run where a configuration value the program reads from the
\* environment is missing, startup is refused: the process never serves and
\* no request is ever accepted or answered.
C9_MissingConfigRefusesStart ==
  (ConfigRead(frontend) \ env # {}) =>
    /\ proc \in {"check_env", "refused"}
    /\ conn = "unopened"
    /\ \A r \in Req : pc[r] = "idle" /\ outcome[r] = NoOutcome /\ storeCalls[r] = 0

C9_Witness ==
  /\ frontend = "http"
  /\ env = {"DEEPSEEK_API_KEY", "WEAVIATE_URL"}
  /\ proc = "refused"

\* the outcome of the HTTP pipeline run alone on the replies to its two calls
RunAlone(sreply, mreply) ==
  LET found == get_relevant_faq_api(sreply)
      said == generate_llm_response_api(mreply)
  IN IF found.raised THEN ErrorOutcome(found.status_code, found.detail)
     ELSE IF found.value = <<>> THEN NoMatchOutcome("http")
     ELSE IF said.raised THEN ErrorOutcome(said.status_code, said.detail)
     ELSE OkOutcome("http", said.text, found.value[1])

\* C10: with /chat/ requests interleaved, what each request holds and returns
\* is what it would hold and return alone, given the replies to its own
\* two calls.
C10_OutcomeAsIfAlone ==
  \A r \in Req :
    frontend = "http" =>
      /\ pc[r] = "done" => outcome[r] = RunAlone(storeReply[r], modelReply[r])
      /\ pc[r] # "done" => outcome[r] = NoOutcome
      /\ pc[r] = "wait_model" =>
           /\ relevant_faqs[r] = get_relevant_faq_api(storeReply[r]).value
           /\ context_text[r] = ContextText(relevant_faqs[r][1])

C10_Witness ==
  \E r, s \in Req :
    /\ frontend = "http"
    /\ pc[r] = "wait_model"
    /\ pc[s] = "done"
    /\ outcome[s].state = "OK"
    /\ outcome[s].source_faq # <<relevant_faqs[r][1]>>

\* C11: for every query and every top_k >= 1, the list get_relevant_faq
\* returns has at most top_k entries, they are the {question, answer} of the
\* store's objects that have properties, in the store's order, and each entry
\* has the fields question and answer and no other.
C11_AtMostTopKInStoreOrder ==
  (rt_pc = "returned" /\ ~rt_result.raised) =>
    LET v == rt_result.value
        os == rt_reply.objects
    IN /\ Len(v) <= rt_top_k
       /\ \A i \in 1..Len(v) : DOMAIN v[i] = {"question", "answer"}
       /\ \E f \in [1..Len(v) -> 1..Len(os)] :
            /\ \A i, j \in 1..Len(v) : i < j => f[i] < f[j]
            /\ \A i \in 1..Len(v) :
                 LET p == os[f[i]].properties
                 IN /\ DOMAIN p # {}
                    /\ v[i].question = (IF "question" \in DOMAIN p THEN p.question ELSE None)
                    /\ v[i].answer = (IF "answer" \in DOMAIN p THEN p.answer ELSE None)
            /\ \A k \in 1..Len(os) :
                 (\A i \in 1..Len(v) : f[i] # k) => DOMAIN os[k].properties = {}

C11_Witness ==
  /\ rt_pc = "returned"
  /\ rt_top_k = 2
  /\ Len(rt_reply.objects) = 2
  /\ "category" \in DOMAIN rt_reply.objects[1].properties
  /\ Len(rt_result.value) = 2
  /\ rt_result.value[1] # rt_result.value[2]

\* C12: once the process has ended, by whatever way, the vector-store
\* connection it opened at startup is not left open, and client.close() is
\* called at most once.
C12_ConnectionClosedWhenProcessEnds ==
  /\ proc \in {"refused", "stopped"} => conn # "open"
  /\ closeCalls <= 1

====
